---- MODULE Spec2Model ----
(***************************************************************************)
(* Session context manager of chatbot-ui (src/app.py).                     *)
(*                                                                         *)
(* The state is what the Flask handlers share: the session records under   *)
(* sessions/ (one pickle per session id), the files under uploads/ and the *)
(* position of every request being served.  A handler is a sequence of     *)
(* steps, one per blocking call it makes (file system, model backend), so  *)
(* that requests of a threaded server interleave between those calls.      *)
(***************************************************************************)
EXTENDS Integers, Sequences, FiniteSets, TLC

\* ------------------------------------------------------------------ bounds

\* Requests served in one behaviour of the threaded server.
MaxOps == 3
\* Requests served in one behaviour of the serial server.
MaxSerialOps == 4
\* Calls that raise in one behaviour (session save, model backend).
MaxFaults == 1
\* Largest index a remove request carries.
MaxIndex == 1

\* --------------------------------------------------------------- constants

STORAGE_THRESHOLD == 100 * 1024

ALLOWED_EXTENSIONS == {"txt", "epub", "md", "json", "csv", "log"}

\* The temperature is held in tenths (0.3 is 3), TLA+ having no fractions.
DEFAULT_CONFIG ==
    [max_tokens |-> 4000, temperature |-> 3, model_name |-> "default-model",
     context_limit |-> 1000000, api_url |-> "default-url"]

DEFAULT_SYSTEM_PROMPT == "default-prompt"

\* Python's None, for the string-valued fields that may hold it.
None == "None"

\* ------------------------------------------------------------------ inputs

Sessions == {"s1", "s2"}
Workers == {1, 2}

\* Texts a client uploads, by what the handlers measure of them: characters
\* (len), characters left by strip(), and bytes of the UTF-8 encoding ("small"
\* and "over" hold one two-byte character each); and the texts of the chat,
\* q1 and q2 the messages once stripped, r1 the reply.
TextTable ==
    [tiny  |-> [chars |-> 5,      stripped |-> 5,      bytes |-> 5],
     small |-> [chars |-> 43,     stripped |-> 41,     bytes |-> 44],
     edge  |-> [chars |-> 102400, stripped |-> 102400, bytes |-> 102400],
     over  |-> [chars |-> 102400, stripped |-> 102400, bytes |-> 102401],
     q1    |-> [chars |-> 9,      stripped |-> 9,      bytes |-> 9],
     q2    |-> [chars |-> 14,     stripped |-> 14,     bytes |-> 14],
     r1    |-> [chars |-> 22,     stripped |-> 22,     bytes |-> 22]]
Texts == {"tiny", "small", "edge", "over"}

\* File names as the client sends them: what secure_filename makes of each
\* (path separators and leading dots dropped) and its extension.
RawNames == {"a.txt", "../a.txt", "b.TXT", "x.exe"}
NameTable ==
    ("a.txt"    :> [secure |-> "a.txt", ext |-> "txt"]) @@
    ("../a.txt" :> [secure |-> "a.txt", ext |-> "txt"]) @@
    ("b.TXT"    :> [secure |-> "b.TXT", ext |-> "TXT"]) @@
    ("x.exe"    :> [secure |-> "x.exe", ext |-> "exe"])

FileNames == {NameTable[r].secure : r \in RawNames}

\* The upload requests clients make: a raw file name and the file's text.
UploadRequests ==
    {<<"a.txt", "over">>, <<"../a.txt", "small">>, <<"a.txt", "edge">>,
     <<"b.TXT", "over">>, <<"b.TXT", "tiny">>, <<"x.exe", "small">>}

Lower(ext) == IF ext = "TXT" THEN "txt" ELSE ext

\* Chat messages as the client sends them, and what strip() makes of each.
Messages == {"q1", " q2 ", "  ", ""}

\* Mutant: the text is taken as sent.
Strip_not(raw) == raw

Strip(raw) ==
    IF raw = "  " THEN ""
    ELSE IF raw = " q2 " THEN "q2"
    ELSE IF raw = " p1 " THEN "p1"
    ELSE raw

\* System prompts as the client sends them.
Prompts == {"  ", " p1 ", ""}

\* The bodies of the config updates clients post: the keys present and their
\* values, a JSON number being given in tenths (1005 is 100.5).
ConfigUpdates ==
    {[context_limit |-> 0, temperature |-> 7],
     [max_tokens |-> 1005, context_limit |-> 105,
      model_name |-> "other-model", api_url |-> "other-url"]}

\* A body with no key.
NoUpdate == [k \in {} |-> 0]

\* Replies of the backend: the assistant text and the usage it reports.
Replies ==
    {[content |-> "r1", prompt_tokens |-> 7, completion_tokens |-> 3, duration |-> 2]}

\* ----------------------------------------------------------- pure helpers

allowed_file(raw) == Lower(NameTable[raw].ext) \in ALLOWED_EXTENSIONS

secure_filename(raw) == NameTable[raw].secure

\* Mutant: the quotient is rounded up.
count_tokens_estimate_up(text) ==
    IF text \in {None, ""} THEN 0 ELSE (TextTable[text].chars + 3) \div 4

count_tokens_estimate(text) ==
    IF text \in {None, ""} THEN 0 ELSE TextTable[text].chars \div 4

\* sum() of a list of numbers.
RECURSIVE sum(_)
sum(numbers) ==
    IF numbers = <<>> THEN 0 ELSE Head(numbers) + sum(Tail(numbers))

\* int(x) of a JSON number given in tenths: the fraction is cut off.
int(tenths) == IF tenths >= 0 THEN tenths \div 10 ELSE -((-tenths) \div 10)

\* float(x) of a JSON number given in tenths, in tenths.
float(tenths) == tenths

\* Mutant: the last element goes, whatever the position.
RemoveAt_last(seq, i) == SubSeq(seq, 1, Len(seq) - 1)

\* list.pop(i - 1): the list without its i-th element.
RemoveAt(seq, i) == SubSeq(seq, 1, i - 1) \o SubSeq(seq, i + 1, Len(seq))

IsPrefix(s, t) == Len(s) <= Len(t) /\ SubSeq(t, 1, Len(s)) = s

Range(seq) == {seq[i] : i \in 1..Len(seq)}

\* ------------------------------------------------------------------- state

VARIABLES
    session_files,  \* sessions/<id>.pkl: exists, complete (fully written), data
    uploads,        \* uploads/: file name -> the text in the file, None if no such file
    pc,             \* per worker: where its request stands
    local,          \* per worker: the request and the handler's locals
    clock,          \* datetime.now(), as a logical time
    ops,            \* requests begun
    faults,         \* calls that raised
    serial,         \* TRUE: the server takes one request at a time
    clients,        \* the session ids clients hold (their cookies)
    committed,      \* history: the last record fully written per session
    nchat,          \* history: chats completed since the ledger was last cleared
    deleted         \* history: the records removed by completed remove / clear requests

vars == <<session_files, uploads, pc, local, clock, ops, faults, serial, clients,
          committed, nchat, deleted>>

DefaultState ==
    [context_files |-> <<>>, conversation_history |-> <<>>,
     config |-> DEFAULT_CONFIG, query_history |-> <<>>,
     system_prompt |-> DEFAULT_SYSTEM_PROMPT]

NoDoc ==
    [name |-> None, content |-> None, type |-> None, added |-> 0, size |-> 0,
     tokens |-> 0, stored_on_server |-> FALSE, server_path |-> None]

\* uploads/ with no file in it.
NoUploads == [n \in FileNames |-> None]

\* No JSON body answered yet.
NoReply == [k \in {} |-> 0]

\* A handler's locals: the request (op, sid, raw: the text or name as sent),
\* what the handler computes, the status of its error response, and for the
\* claims the store as the request found it (store0) and the calls made to
\* the backend (attempts).
IdleLocal ==
    [op |-> "none", sid |-> None, filename |-> None, ext |-> None, text |-> None,
     file_info |-> NoDoc, index |-> 0, message |-> None, use_history |-> TRUE,
     snap |-> DefaultState, data |-> DefaultState, removed |-> <<>>,
     context |-> <<>>, raw |-> None, status |-> 0, attempts |-> 0,
     store0 |-> NoUploads, permanent_context |-> <<>>, messages |-> <<>>,
     request_data |-> NoUpdate, reply |-> NoReply, load_failed |-> FALSE]

NoFile == [exists |-> FALSE, complete |-> FALSE, data |-> DefaultState]
Truncated == [exists |-> TRUE, complete |-> FALSE, data |-> DefaultState]

Init0 ==
    /\ session_files = [s \in Sessions |-> NoFile]
    /\ uploads = NoUploads
    /\ pc = [w \in Workers |-> "idle"]
    /\ local = [w \in Workers |-> IdleLocal]
    /\ clock = 1
    /\ ops = 0
    /\ faults = 0
    /\ committed = [s \in Sessions |-> NoFile]
    /\ nchat = [s \in Sessions |-> 0]
    /\ deleted = [s \in Sessions |-> {}]

\* One client, served by a threaded server.
Init == Init0 /\ serial = FALSE /\ clients = {"s1"}
\* One client, served one request at a time.
InitSerial == Init0 /\ serial = TRUE /\ clients = {"s1"}
\* Two clients, served one request at a time.
InitTwoSessions == Init0 /\ serial = TRUE /\ clients = {"s1", "s2"}

\* ------------------------------------------------------------ session store

\* The session file is there and pickle.load raises on it: it is empty or cut
\* short, a save of the session being under way.
pickle_load_raises(s) == session_files[s].exists /\ ~session_files[s].complete

\* Mutant: an unreadable file is answered with the record last saved whole.
load_session_data_last_whole(s) ==
    IF session_files[s].exists
    THEN IF session_files[s].complete THEN session_files[s].data
         ELSE committed[s].data
    ELSE DefaultState

\* load_session_data: the pickled record if the file exists and unpickles,
\* the default state otherwise (a file being rewritten is empty or cut short,
\* pickle.load raises and the bare except swallows it).
load_session_data(s) ==
    IF session_files[s].exists /\ session_files[s].complete
    THEN session_files[s].data
    ELSE DefaultState

\* What save_session_data leaves in the file once pickle.dump has returned.
dumped(data) == [exists |-> TRUE, complete |-> TRUE, data |-> data]

\* ---------------------------------------------------------------- requests

AllIdle == \A w \in Workers : pc[w] = "idle"

\* A request is taken by the first free worker; a serial server takes one
\* only when no other is being served.
CanBegin(w) ==
    /\ pc[w] = "idle"
    /\ ops < (IF serial THEN MaxSerialOps ELSE MaxOps)
    /\ \A v \in Workers : v < w => pc[v] # "idle"
    /\ serial => AllIdle

\* The outcomes of a call that may raise (TRUE: it returns).  Calls raise in
\* the runs of the serial server; those of the threaded server explore the
\* interleavings of calls that return.
Outcomes == IF serial /\ faults < MaxFaults THEN {TRUE, FALSE} ELSE {TRUE}

Respond(w) ==
    /\ pc' = [pc EXCEPT ![w] = "idle"]
    /\ local' = [local EXCEPT ![w] = IdleLocal]

\* The handler, its locals being `loc`, is about to answer an error of this
\* status: a return jsonify(...), 400 or 500, or an exception Flask turns
\* into a 500.
Reject(w, loc, status) ==
    /\ pc' = [pc EXCEPT ![w] = "error"]
    /\ local' = [local EXCEPT ![w] = [loc EXCEPT !.status = status]]

\* The error response is sent.
ReturnError(w) ==
    /\ pc[w] = "error"
    /\ Respond(w)
    /\ UNCHANGED <<session_files, uploads, clock, ops, faults, serial, clients,
                   committed, nchat, deleted>>

\* ------------------------------------------------------------------ upload

\* Mutant: the threshold itself already goes to the server.
use_server_storage_inclusive(content) ==
    TextTable[content].bytes >= STORAGE_THRESHOLD

use_server_storage(content) == TextTable[content].bytes > STORAGE_THRESHOLD

\* Mutant: the tokens are estimated from the bytes.
file_info_tokens_of_bytes(filename, ext, content, now) ==
    [name |-> filename,
     content |-> IF use_server_storage(content) THEN None ELSE content,
     type |-> ext,
     added |-> now,
     size |-> TextTable[content].bytes,
     tokens |-> TextTable[content].bytes \div 4,
     stored_on_server |-> use_server_storage(content),
     server_path |-> IF use_server_storage(content) THEN filename ELSE None]

file_info(filename, ext, content, now) ==
    [name |-> filename,
     content |-> IF use_server_storage(content) THEN None ELSE content,
     type |-> ext,
     added |-> now,
     size |-> TextTable[content].bytes,
     tokens |-> count_tokens_estimate(content),
     stored_on_server |-> use_server_storage(content),
     server_path |-> IF use_server_storage(content) THEN filename ELSE None]

\* upload_file up to file.save: the type check, the sanitised name, the file
\* written under uploads/ (over a file of that name, if any).
UploadBegin(w, s, raw, text) ==
    /\ CanBegin(w)
    /\ ops' = ops + 1
    /\ LET loc == [IdleLocal EXCEPT !.op = "upload", !.sid = s, !.raw = raw,
                                     !.store0 = uploads]
       IN  IF allowed_file(raw)
           THEN /\ uploads' = [uploads EXCEPT ![secure_filename(raw)] = text]
                /\ pc' = [pc EXCEPT ![w] = "u_read"]
                /\ local' = [local EXCEPT ![w] =
                       [loc EXCEPT !.filename = secure_filename(raw),
                                   !.ext = Lower(NameTable[raw].ext)]]
           ELSE Reject(w, loc, 400) /\ UNCHANGED uploads
    /\ UNCHANGED <<session_files, clock, faults, serial, clients, committed, nchat, deleted>>

\* upload_file from read_file_content to the append: the text read back,
\* the emptiness check, the record, the removal of the file of an inline
\* document, the session loaded and the record appended.  A file gone by now
\* makes the read raise: the handler finds nothing to remove and answers 500.
UploadRead(w) ==
    /\ pc[w] = "u_read"
    /\ LET filename == local[w].filename
           content == uploads[filename]
           data == load_session_data(local[w].sid)
           info == file_info(filename, local[w].ext, content, clock)
       IN  IF content = None
           THEN Reject(w, local[w], 500) /\ UNCHANGED <<uploads, clock>>
           ELSE IF TextTable[content].stripped < 10
           THEN /\ uploads' = [uploads EXCEPT ![filename] = None]
                /\ Reject(w, [local[w] EXCEPT !.text = content], 400)
                /\ UNCHANGED clock
           ELSE /\ uploads' = IF use_server_storage(content) THEN uploads
                              ELSE [uploads EXCEPT ![filename] = None]
                /\ clock' = clock + 1
                /\ pc' = [pc EXCEPT ![w] = "save_open"]
                /\ local' = [local EXCEPT
                       ![w].file_info = info,
                       ![w].text = content,
                       ![w].snap = data,
                       ![w].load_failed = pickle_load_raises(local[w].sid),
                       ![w].data = [data EXCEPT !.context_files = Append(@, info)]]
    /\ UNCHANGED <<session_files, ops, faults, serial, clients, committed, nchat, deleted>>

\* -------------------------------------------------------------------- chat

\* The loop of chat that loads the text of server-stored documents: each such
\* record is copied and the copy given the text read from its file; the other
\* records are passed as they are.  The loaded records are left as they were.
with_content(f) ==
    IF f.stored_on_server /\ f.server_path # None
    THEN [f EXCEPT !.content = uploads[f.server_path]]
    ELSE f

\* Mutant: the first document only is passed on.
context_files_first_only(context_files) ==
    [i \in 1..(IF Len(context_files) > 1 THEN 1 ELSE Len(context_files)) |->
        with_content(context_files[i])]

context_files_with_content(context_files) ==
    [i \in 1..Len(context_files) |-> with_content(context_files[i])]

\* Mutant: the text is set on the loaded record itself, not on a copy.
after_gathering_in_place(data) ==
    [data EXCEPT !.context_files = context_files_with_content(@)]

\* Mutant: a server-stored record whose text was gathered is made inline.
after_gathering_inlined(data) ==
    [data EXCEPT !.context_files =
        [i \in 1..Len(@) |->
            IF @[i].stored_on_server
            THEN [with_content(@[i]) EXCEPT !.stored_on_server = FALSE,
                                            !.server_path = None]
            ELSE @[i]]]

\* The loaded record after that loop: f.copy() keeps the gathered text out
\* of it.
after_gathering(data) == data

\* read_file_content raises for a document whose file is gone.
unreadable(context_files) ==
    \E i \in 1..Len(context_files) :
        /\ context_files[i].stored_on_server
        /\ context_files[i].server_path # None
        /\ uploads[context_files[i].server_path] = None

\* The history chat passes to the backend and then appends to: the loaded
\* list itself, or a fresh empty list when the caller opts out.
history_for(data, use_history) ==
    IF use_history THEN data.conversation_history ELSE <<>>

\* A string of the prompt is the sequence of its pieces, the empty string the
\* empty sequence: a piece is a line of markers (kind, the number i in it,
\* the name arg in it) or a text (kind "text", arg the text).
Piece(kind, i, arg) == [kind |-> kind, i |-> i, arg |-> arg]

Str(text) == IF text = "" THEN <<>> ELSE <<Piece("text", 0, text)>>

\* Mutant: enumerate(context_files) without its start.
source_number_from_zero(i) == i - 1

\* enumerate(context_files, 1): the number of the i-th record of the list.
source_number(i) == i

\* The three parts build_context_section appends for each record, from the
\* i-th record of the list on.
RECURSIVE source_parts(_, _)
source_parts(context_files, i) ==
    IF i > Len(context_files) THEN <<>>
    ELSE <<Piece("=== SOURCE i: name ===", source_number(i), context_files[i].name),
           Piece("text", 0, context_files[i].content),
           Piece("=== END SOURCE i ===", source_number(i), None)>>
         \o source_parts(context_files, i + 1)

build_context_section(context_files) ==
    IF Len(context_files) = 0 THEN <<>>
    ELSE <<Piece("=== CONTEXT DOCUMENTS ===", 0, None)>>
         \o source_parts(context_files, 1)
         \o <<Piece("=== END OF CONTEXT DOCUMENTS ===", 0, None)>>

\* Mutant: the context message is appended whatever the context is.
context_message_always(permanent_context) ==
    <<[role |-> "system", content |-> permanent_context]>>

\* if permanent_context: messages.append(...)
context_message(permanent_context) ==
    IF permanent_context # <<>>
    THEN <<[role |-> "system", content |-> permanent_context]>>
    ELSE <<>>

\* The messages send_prompt_to_model puts in the payload.
payload_messages(system_prompt, permanent_context, conversation_history, user_message) ==
    <<[role |-> "system", content |-> Str(system_prompt)]>>
    \o context_message(permanent_context)
    \o [i \in 1..Len(conversation_history) |->
           [role |-> conversation_history[i].role,
            content |-> Str(conversation_history[i].content)]]
    \o <<[role |-> "user", content |-> Str(user_message)]>>

\* Mutant: the user turn is recorded without the assistant turn.
chat_update_user_only(data, message, use_history, reply, now) ==
    [data EXCEPT
       !.conversation_history =
           Append(history_for(data, use_history),
                  [role |-> "user", content |-> message]),
       !.query_history =
           Append(@, [timestamp |-> now, prompt |-> message,
                      prompt_tokens |-> reply.prompt_tokens,
                      completion_tokens |-> reply.completion_tokens,
                      duration |-> reply.duration])]

\* Mutant: the turns are recorded, the query is not.
chat_update_no_query(data, message, use_history, reply, now) ==
    [data EXCEPT
       !.conversation_history =
           history_for(data, use_history) \o
               <<[role |-> "user", content |-> message],
                 [role |-> "assistant", content |-> reply.content]>>]

\* What chat does to the loaded record once the backend has replied.
chat_update(data, message, use_history, reply, now) ==
    [data EXCEPT
       !.conversation_history =
           history_for(data, use_history) \o
               <<[role |-> "user", content |-> message],
                 [role |-> "assistant", content |-> reply.content]>>,
       !.query_history =
           Append(@, [timestamp |-> now, prompt |-> message,
                      prompt_tokens |-> reply.prompt_tokens,
                      completion_tokens |-> reply.completion_tokens,
                      duration |-> reply.duration])]

\* chat up to requests.post: the record is loaded, the documents' texts are
\* gathered and the request is sent.  An unreadable document ends it (500).
ChatBegin(w, s, message, use_history) ==
    /\ CanBegin(w)
    /\ ops' = ops + 1
    /\ LET data == load_session_data(s)
           loc == [IdleLocal EXCEPT !.op = "chat", !.sid = s, !.raw = message,
                                     !.message = Strip(message),
                                     !.use_history = use_history]
       IN  IF Strip(message) = ""
           THEN Reject(w, loc, 400)
           ELSE IF unreadable(data.context_files)
           THEN Reject(w, [loc EXCEPT !.snap = data,
                                      !.load_failed = pickle_load_raises(s), !.data = data], 500)
           ELSE /\ pc' = [pc EXCEPT ![w] = "c_model"]
                /\ local' = [local EXCEPT ![w] =
                       [loc EXCEPT
                          !.snap = data,
                          !.load_failed = pickle_load_raises(s), !.data = after_gathering(data),
                          !.context = context_files_with_content(data.context_files),
                          !.permanent_context =
                              build_context_section(
                                  context_files_with_content(data.context_files)),
                          !.messages =
                              payload_messages(
                                  data.system_prompt,
                                  build_context_section(
                                      context_files_with_content(data.context_files)),
                                  history_for(data, use_history),
                                  Strip(message)),
                          !.attempts = 1]]
    /\ UNCHANGED <<session_files, uploads, clock, faults, serial, clients,
                   committed, nchat, deleted>>

\* Mutant: a call that raised is made once more.
ChatModel_retrying(w) ==
    /\ pc[w] = "c_model"
    /\ \E ok \in Outcomes :
         IF ok
         THEN /\ \E reply \in Replies :
                    local' = [local EXCEPT ![w].data =
                                 chat_update(local[w].data, local[w].message,
                                             local[w].use_history, reply, clock)]
              /\ clock' = clock + 1
              /\ pc' = [pc EXCEPT ![w] = "save_open"]
              /\ UNCHANGED faults
         ELSE /\ faults' = faults + 1
              /\ local' = [local EXCEPT ![w].attempts = @ + 1]
              /\ UNCHANGED <<pc, clock>>
    /\ UNCHANGED <<session_files, uploads, ops, serial, clients,
                   committed, nchat, deleted>>

\* The backend answers, or the call raises (timeout, connection, status):
\* on an answer the two turns and the query record are added to the record.
ChatModel(w) ==
    /\ pc[w] = "c_model"
    /\ \E ok \in Outcomes :
         IF ok
         THEN /\ \E reply \in Replies :
                    local' = [local EXCEPT ![w].data =
                                 chat_update(local[w].data, local[w].message,
                                             local[w].use_history, reply, clock)]
              /\ clock' = clock + 1
              /\ pc' = [pc EXCEPT ![w] = "save_open"]
              /\ UNCHANGED faults
         ELSE /\ faults' = faults + 1
              /\ Reject(w, local[w], 500)
              /\ UNCHANGED clock
    /\ UNCHANGED <<session_files, uploads, ops, serial, clients,
                   committed, nchat, deleted>>

\* ------------------------------------------------------------------ delete

\* Mutant: the records go, their files stay.
without_files_kept(docs) == uploads

\* os.remove of the files of the server-stored documents among `docs`.
without_files(docs) ==
    [n \in FileNames |->
        IF \E i \in 1..Len(docs) :
               docs[i].stored_on_server /\ docs[i].server_path = n
        THEN None ELSE uploads[n]]

\* Mutant: an index past the end removes the last record.
RemoveBegin_clamped(w, s, index) ==
    /\ CanBegin(w)
    /\ ops' = ops + 1
    /\ LET data == load_session_data(s)
           context_files == data.context_files
           at == IF index < Len(context_files) THEN index + 1 ELSE Len(context_files)
           loc == [IdleLocal EXCEPT !.op = "remove", !.sid = s, !.index = index,
                                     !.snap = data,
                                     !.load_failed = pickle_load_raises(s), !.data = data]
       IN  IF 0 <= index /\ 0 < Len(context_files)
           THEN /\ uploads' = without_files(<<context_files[at]>>)
                /\ pc' = [pc EXCEPT ![w] = "save_open"]
                /\ local' = [local EXCEPT ![w] =
                       [loc EXCEPT
                          !.data = [data EXCEPT !.context_files =
                                       RemoveAt(context_files, at)],
                          !.removed = <<context_files[at]>>]]
           ELSE Reject(w, loc, 400) /\ UNCHANGED uploads
    /\ UNCHANGED <<session_files, clock, faults, serial, clients,
                   committed, nchat, deleted>>

\* remove_context up to the save: the index check, the pop, the file removed.
RemoveBegin(w, s, index) ==
    /\ CanBegin(w)
    /\ ops' = ops + 1
    /\ LET data == load_session_data(s)
           context_files == data.context_files
           loc == [IdleLocal EXCEPT !.op = "remove", !.sid = s, !.index = index,
                                     !.snap = data,
                                     !.load_failed = pickle_load_raises(s), !.data = data]
       IN  IF 0 <= index /\ index < Len(context_files)
           THEN /\ uploads' = without_files(<<context_files[index + 1]>>)
                /\ pc' = [pc EXCEPT ![w] = "save_open"]
                /\ local' = [local EXCEPT ![w] =
                       [loc EXCEPT
                          !.data = [data EXCEPT !.context_files =
                                       RemoveAt(context_files, index + 1)],
                          !.removed = <<context_files[index + 1]>>]]
           ELSE Reject(w, loc, 400) /\ UNCHANGED uploads
    /\ UNCHANGED <<session_files, clock, faults, serial, clients,
                   committed, nchat, deleted>>

\* clear_context up to the save: every server-stored file removed, the list
\* emptied.
ClearContextBegin(w, s) ==
    /\ CanBegin(w)
    /\ ops' = ops + 1
    /\ LET data == load_session_data(s)
       IN  /\ uploads' = without_files(data.context_files)
           /\ local' = [local EXCEPT ![w] =
                  [IdleLocal EXCEPT
                     !.op = "clear_context", !.sid = s, !.snap = data,
                                                        !.load_failed = pickle_load_raises(s),
                     !.data = [data EXCEPT !.context_files = <<>>],
                     !.removed = data.context_files]]
    /\ pc' = [pc EXCEPT ![w] = "save_open"]
    /\ UNCHANGED <<session_files, clock, faults, serial, clients,
                   committed, nchat, deleted>>

\* clear_conversation up to the save.
ClearConversationBegin(w, s) ==
    /\ CanBegin(w)
    /\ ops' = ops + 1
    /\ LET data == load_session_data(s)
       IN  local' = [local EXCEPT ![w] =
                  [IdleLocal EXCEPT
                     !.op = "clear_conversation", !.sid = s, !.snap = data,
                                                             !.load_failed = pickle_load_raises(s),
                     !.data = [data EXCEPT !.conversation_history = <<>>]]]
    /\ pc' = [pc EXCEPT ![w] = "save_open"]
    /\ UNCHANGED <<session_files, uploads, clock, faults, serial, clients,
                   committed, nchat, deleted>>

\* ------------------------------------------------------------------- reads

\* The handler of worker w, its locals being `loc`, has its JSON body.
Reply(w, loc, body) ==
    /\ pc' = [pc EXCEPT ![w] = "reply"]
    /\ local' = [local EXCEPT ![w] = [loc EXCEPT !.reply = body]]

\* The body is sent with status 200.
ReturnReply(w) ==
    /\ pc[w] = "reply"
    /\ Respond(w)
    /\ UNCHANGED <<session_files, uploads, clock, ops, faults, serial, clients,
                   committed, nchat, deleted>>

\* The tokens get_stats counts for a document: those recorded for a
\* server-stored one, the estimate of the recorded text for an inline one.
stats_tokens(f) ==
    IF f.stored_on_server THEN f.tokens ELSE count_tokens_estimate(f.content)

\* Mutant: the limit is the one of the defaults.
stats_limit_default(data) == DEFAULT_CONFIG.context_limit

\* config['context_limit'] of get_stats.
stats_limit(data) == data.config.context_limit

\* The stats of get_stats but the totals of the queries.  The quotient of
\* percentage_used is held as a fraction: num / den * 100.
get_stats(data) ==
    LET context_files == data.context_files
        conversation_history == data.conversation_history
        context_tokens ==
            sum([i \in 1..Len(context_files) |-> stats_tokens(context_files[i])])
        conv_tokens ==
            sum([i \in 1..Len(conversation_history) |->
                    count_tokens_estimate(conversation_history[i].content)])
    IN  [context_files |-> Len(context_files),
         context_tokens |-> context_tokens,
         conversation_turns |-> Len(conversation_history) \div 2,
         conversation_tokens |-> conv_tokens,
         total_tokens |-> context_tokens + conv_tokens,
         queries_made |-> Len(data.query_history),
         context_limit |-> stats_limit(data),
         percentage_used |-> [num |-> context_tokens + conv_tokens,
                              den |-> stats_limit(data)]]

\* GET /api/stats: the division raises when the limit is 0 (500).
StatsBegin(w, s) ==
    /\ CanBegin(w)
    /\ ops' = ops + 1
    /\ LET data == load_session_data(s)
           loc == [IdleLocal EXCEPT !.op = "stats", !.sid = s, !.snap = data,
                                                               !.load_failed = pickle_load_raises(s),
                                     !.data = data]
       IN  IF stats_limit(data) = 0
           THEN Reject(w, loc, 500)
           ELSE Reply(w, loc, get_stats(data))
    /\ UNCHANGED <<session_files, uploads, clock, faults, serial, clients,
                   committed, nchat, deleted>>

\* The body of get_context but the formatted sizes.
get_context(data) ==
    LET context_files == data.context_files
    IN  [files |-> [i \in 1..Len(context_files) |->
                      [index |-> i - 1,
                       name |-> context_files[i].name,
                       type |-> context_files[i].type,
                       tokens |-> context_files[i].tokens,
                       added |-> context_files[i].added,
                       stored_on_server |-> context_files[i].stored_on_server]],
         total_files |-> Len(context_files),
         total_tokens |->
             sum([i \in 1..Len(context_files) |-> context_files[i].tokens])]

\* GET /api/context.
ContextBegin(w, s) ==
    /\ CanBegin(w)
    /\ ops' = ops + 1
    /\ LET data == load_session_data(s)
       IN  Reply(w, [IdleLocal EXCEPT !.op = "context", !.sid = s, !.snap = data,
                                                                   !.load_failed = pickle_load_raises(s),
                                      !.data = data],
                 get_context(data))
    /\ UNCHANGED <<session_files, uploads, clock, faults, serial, clients,
                   committed, nchat, deleted>>

\* The body of get_conversation.
get_conversation(data) ==
    LET conversation_history == data.conversation_history
    IN  [messages |-> [i \in 1..Len(conversation_history) |->
                         [index |-> i - 1,
                          role |-> conversation_history[i].role,
                          content |-> conversation_history[i].content,
                          tokens |-> count_tokens_estimate(
                                         conversation_history[i].content)]],
         total_messages |-> Len(conversation_history),
         turns |-> Len(conversation_history) \div 2]

\* GET /api/conversation.
ConversationBegin(w, s) ==
    /\ CanBegin(w)
    /\ ops' = ops + 1
    /\ LET data == load_session_data(s)
       IN  Reply(w, [IdleLocal EXCEPT !.op = "conversation", !.sid = s,
                                      !.snap = data,
                                      !.load_failed = pickle_load_raises(s), !.data = data],
                 get_conversation(data))
    /\ UNCHANGED <<session_files, uploads, clock, faults, serial, clients,
                   committed, nchat, deleted>>

\* ---------------------------------------------------------------- settings

\* Mutant: every key of the body that names a config field is taken.
config_update_any_key(config, request_data) ==
    [k \in DOMAIN config |->
        IF k \in DOMAIN request_data
        THEN IF k \in {"max_tokens", "context_limit"} THEN int(request_data[k])
             ELSE request_data[k]
        ELSE config[k]]

\* The three ifs of get_or_update_config, in their order: max_tokens,
\* temperature and context_limit are taken from the body when it has them.
config_update(config, request_data) ==
    LET c1 == IF "max_tokens" \in DOMAIN request_data
              THEN [config EXCEPT !.max_tokens = int(request_data.max_tokens)]
              ELSE config
        c2 == IF "temperature" \in DOMAIN request_data
              THEN [c1 EXCEPT !.temperature = float(request_data.temperature)]
              ELSE c1
    IN  IF "context_limit" \in DOMAIN request_data
        THEN [c2 EXCEPT !.context_limit = int(request_data.context_limit)]
        ELSE c2

\* POST /api/config up to the save.
ConfigBegin(w, s, request_data) ==
    /\ CanBegin(w)
    /\ ops' = ops + 1
    /\ LET data == load_session_data(s)
       IN  local' = [local EXCEPT ![w] =
                  [IdleLocal EXCEPT
                     !.op = "config", !.sid = s, !.snap = data,
                                                 !.load_failed = pickle_load_raises(s),
                     !.request_data = request_data,
                     !.data = [data EXCEPT !.config =
                                  config_update(data.config, request_data)]]]
    /\ pc' = [pc EXCEPT ![w] = "save_open"]
    /\ UNCHANGED <<session_files, uploads, clock, faults, serial, clients,
                   committed, nchat, deleted>>

\* POST /api/system-prompt up to the save: the record is loaded, the prompt
\* stripped, an empty one refused (400).
SystemPromptBegin(w, s, raw) ==
    /\ CanBegin(w)
    /\ ops' = ops + 1
    /\ LET data == load_session_data(s)
           prompt == Strip(raw)
           loc == [IdleLocal EXCEPT !.op = "system_prompt", !.sid = s,
                                     !.raw = raw, !.message = prompt,
                                     !.snap = data,
                                     !.load_failed = pickle_load_raises(s), !.data = data]
       IN  IF prompt = ""
           THEN Reject(w, loc, 400)
           ELSE /\ pc' = [pc EXCEPT ![w] = "save_open"]
                /\ local' = [local EXCEPT ![w] =
                       [loc EXCEPT !.data = [data EXCEPT !.system_prompt = prompt]]]
    /\ UNCHANGED <<session_files, uploads, clock, faults, serial, clients,
                   committed, nchat, deleted>>

\* -------------------------------------------------------------------- save

\* open(session_file, 'wb'): the file is created or cut to length 0.  When it
\* raises, upload_file's handler removes the uploaded file if it is there;
\* the other handlers answer 500 and touch nothing more.
SaveOpen(w) ==
    /\ pc[w] = "save_open"
    /\ \E ok \in Outcomes :
         IF ok
         THEN /\ session_files' = [session_files EXCEPT ![local[w].sid] = Truncated]
              /\ pc' = [pc EXCEPT ![w] = "save_dump"]
              /\ UNCHANGED <<local, uploads, faults>>
         ELSE /\ faults' = faults + 1
              /\ uploads' = IF local[w].op = "upload"
                            THEN [uploads EXCEPT ![local[w].filename] = None]
                            ELSE uploads
              /\ Reject(w, local[w], 500)
              /\ UNCHANGED session_files
    /\ UNCHANGED <<clock, ops, serial, clients, committed, nchat, deleted>>

\* Mutant: a save that finds the record changed since its load keeps it.
pickled_unless_changed(w) ==
    IF committed[local[w].sid].exists
       /\ committed[local[w].sid].data # local[w].snap
    THEN committed[local[w].sid].data
    ELSE local[w].data

\* The record pickle.dump writes: the one the handler holds.
pickled(w) == local[w].data

\* pickle.dump(data, f) and the close: the record is whole again, and the
\* request answers success.
SaveDump(w) ==
    /\ pc[w] = "save_dump"
    /\ LET s == local[w].sid
       IN  /\ session_files' = [session_files EXCEPT ![s] = dumped(pickled(w))]
           /\ committed' = [committed EXCEPT ![s] = dumped(pickled(w))]
           /\ nchat' = [nchat EXCEPT ![s] =
                           IF local[w].op = "chat" THEN @ + 1
                           ELSE IF local[w].op = "clear_conversation" THEN 0
                           ELSE @]
           /\ deleted' = [deleted EXCEPT ![s] =
                             @ \cup Range(local[w].removed)]
    /\ Respond(w)
    /\ UNCHANGED <<uploads, clock, ops, faults, serial, clients>>

\* The requests clients make.  Against the threaded server, where the
\* claims are about how requests interleave, and when there are two of them,
\* where the claims are about what one does to the other, they make fewer
\* different ones.
Wide == serial /\ clients = {"s1"}

UploadInputs ==
    IF Wide THEN UploadRequests
    ELSE {<<"a.txt", "over">>, <<"../a.txt", "small">>, <<"b.TXT", "tiny">>}

MessageInputs == IF Wide THEN Messages ELSE {"q1", "  "}

ConfigInputs ==
    IF Wide THEN ConfigUpdates
    ELSE {[max_tokens |-> 1005, context_limit |-> 105,
      model_name |-> "other-model", api_url |-> "other-url"]}

PromptInputs == IF Wide THEN Prompts ELSE {" p1 "}

Next ==
    \E w \in Workers :
        \/ \E s \in clients, u \in UploadInputs :
               UploadBegin(w, s, u[1], u[2])
        \/ UploadRead(w)
        \/ \E s \in clients, m \in MessageInputs, h \in BOOLEAN :
               ChatBegin(w, s, m, h)
        \/ ChatModel(w)
        \/ \E s \in clients, i \in 0..MaxIndex : RemoveBegin(w, s, i)
        \/ \E s \in clients : ClearContextBegin(w, s)
        \/ \E s \in clients : ClearConversationBegin(w, s)
        \/ \E s \in clients, request_data \in ConfigInputs :
               ConfigBegin(w, s, request_data)
        \/ \E s \in clients, raw \in PromptInputs : SystemPromptBegin(w, s, raw)
        \/ SaveOpen(w)
        \/ SaveDump(w)
        \/ ReturnError(w)
        \/ \E s \in clients : StatsBegin(w, s)
        \/ \E s \in clients : ContextBegin(w, s)
        \/ \E s \in clients : ConversationBegin(w, s)
        \/ ReturnReply(w)

Spec == Init /\ [][Next]_vars
SerialSpec == InitSerial /\ [][Next]_vars
TwoSessionSpec == InitTwoSessions /\ [][Next]_vars

\* ================================================================== claims

\* The record a request would load now, and its parts.
Persisted(s) == load_session_data(s)
Documents(s) == Persisted(s).context_files
Ledger(s) == Persisted(s).conversation_history

\* Worker w is at the last step of a request of kind `op`, which succeeds.
Completes(w, op) == pc[w] = "save_dump" /\ pc'[w] = "idle" /\ local[w].op = op

\* C1: from an empty ledger and with no clear_conversation in between, after
\* N chat calls that completed the persisted ledger holds exactly 2N turns
\* (nchat counts the chats completed since the last clear, which resets it).
C1_LedgerLength ==
    AllIdle => \A s \in Sessions : Len(Ledger(s)) = 2 * nchat[s]

\* C2: every request other than clear_conversation leaves the ledger it found
\* as a prefix of the ledger it persists.
C2_AppendOnly ==
    [][\A w \in Workers :
          (pc[w] = "save_dump" /\ pc'[w] = "idle"
             /\ local[w].op # "clear_conversation")
          => IsPrefix(committed[local[w].sid].data.conversation_history,
                      committed'[local[w].sid].data.conversation_history)]_vars

\* C3: between requests every server-stored record's path names a file that
\* exists, and every file under uploads/ is the file of some record.
C3_StoreConsistent ==
    AllIdle =>
      /\ \A s \in Sessions : \A d \in Range(Documents(s)) :
             d.stored_on_server => uploads[d.server_path] # None
      /\ \A n \in FileNames :
             uploads[n] # None =>
                 \E s \in Sessions : \E d \in Range(Documents(s)) :
                     d.stored_on_server /\ d.server_path = n

\* C4: no two records of a session carry the same name.
C4_UniqueNames ==
    \A s \in Sessions :
        \A i, j \in 1..Len(Documents(s)) :
            i # j => Documents(s)[i].name # Documents(s)[j].name

\* C5: a record removed by a completed remove or clear request is never in
\* the persisted record of its session again.
C5_NoResurrection ==
    \A s \in Sessions :
        \A d \in Range(committed[s].data.context_files) : d \notin deleted[s]

\* A request of worker w loads the session record in this step.
Loads(w) ==
    \/ pc[w] = "u_read" /\ pc'[w] = "save_open"
    \/ pc[w] = "idle" /\ pc'[w] \in {"c_model", "save_open"}

\* C6: a load returns the record last saved whole, or the one a save under
\* way is writing; the default state only when no record was ever saved.
C6_AtomicLoad ==
    [][\A w \in Workers :
          Loads(w) =>
            LET s == local'[w].sid
            IN  local'[w].snap \in
                  IF committed[s].exists
                  THEN {committed[s].data} \cup
                       {local[v].data : v \in {u \in Workers :
                            pc[u] = "save_dump" /\ local[u].sid = s}}
                  ELSE {DefaultState}]_vars

\* Record `data` is what the request of worker w computes from the record it
\* loaded (snap): its own change and nothing else.
Computes(w, data) ==
    LET l == local[w]
        rest(fields) == \A f \in DOMAIN DefaultState \ fields : data[f] = l.snap[f]
    IN  CASE l.op = "upload" ->
               /\ data.context_files = Append(l.snap.context_files, l.file_info)
               /\ rest({"context_files"})
          [] l.op = "chat" ->
               /\ Len(data.conversation_history) =
                      Len(history_for(l.snap, l.use_history)) + 2
               /\ IsPrefix(history_for(l.snap, l.use_history),
                           data.conversation_history)
               /\ data.conversation_history[Len(data.conversation_history) - 1] =
                      [role |-> "user", content |-> l.message]
               /\ Len(data.query_history) = Len(l.snap.query_history) + 1
               /\ IsPrefix(l.snap.query_history, data.query_history)
               /\ rest({"conversation_history", "query_history"})
          [] l.op = "remove" ->
               /\ data.context_files = RemoveAt(l.snap.context_files, l.index + 1)
               /\ rest({"context_files"})
          [] l.op = "clear_context" ->
               /\ data.context_files = <<>>
               /\ rest({"context_files"})
          [] l.op = "clear_conversation" ->
               /\ data.conversation_history = <<>>
               /\ rest({"conversation_history"})
          [] l.op = "config" ->
               /\ data.config = config_update(l.snap.config, l.request_data)
               /\ rest({"config"})
          [] l.op = "system_prompt" ->
               /\ data.system_prompt = l.message
               /\ rest({"system_prompt"})
          [] OTHER -> FALSE

\* C7: whatever other requests saved since it loaded, a request's save leaves
\* exactly the record that request computed from what it loaded.
C7_LastWriteWins ==
    [][\A w \in Workers :
          (pc[w] = "save_dump" /\ pc'[w] = "idle") =>
            /\ session_files'[local[w].sid].complete
            /\ Computes(w, session_files'[local[w].sid].data)]_vars

\* Two chats of one session completed, and the record holds one query: the
\* one that saved first lost its turns to the other.
C7_Witness ==
    /\ AllIdle
    /\ nchat["s1"] = 2
    /\ Len(committed["s1"].data.query_history) = 1

C9_TierByBytes ==
    [][\A w \in Workers :
          Completes(w, "upload") =>
            LET docs == session_files'[local[w].sid].data.context_files
                d == docs[Len(docs)]
                text == local[w].text
            IN  IF TextTable[text].bytes <= STORAGE_THRESHOLD
                THEN ~d.stored_on_server /\ uploads'[d.name] = None
                ELSE d.stored_on_server /\ uploads'[d.server_path] = text]_vars

\* Both sides of the threshold are persisted: a text of exactly
\* STORAGE_THRESHOLD bytes inline, one of a byte more on the server.
C9_Witness ==
    /\ AllIdle
    /\ \E d \in Range(Documents("s1")) :
           d.size = STORAGE_THRESHOLD /\ ~d.stored_on_server
    /\ \E d \in Range(Documents("s1")) :
           d.size = STORAGE_THRESHOLD + 1 /\ d.stored_on_server

\* C10: in every persisted record, an inline document has its text and no
\* path, a server-stored one its path and no text.
C10_TextOrPath ==
    \A s \in Sessions :
        session_files[s].complete =>
            \A d \in Range(session_files[s].data.context_files) :
                IF d.stored_on_server
                THEN d.server_path # None /\ d.content = None
                ELSE d.content # None /\ d.server_path = None

\* A chat that gathered the text of a server-stored document has completed
\* and the record still lists that document.
C10_Witness ==
    /\ AllIdle
    /\ nchat["s1"] >= 1
    /\ \E d \in Range(Documents("s1")) : d.stored_on_server

\* A request of kind `op` of worker w is at its error response.
Failed(w, op) == pc[w] = "error" /\ local[w].op = op

\* The turns come in pairs: a user turn, then its assistant turn.
Paired(history) ==
    /\ Len(history) % 2 = 0
    /\ \A i \in 1..Len(history) :
          history[i].role = IF i % 2 = 1 THEN "user" ELSE "assistant"

\* C11: every persisted ledger has an even number of turns, alternating user
\* and assistant from a user turn on; so no chat, failed or not, persists a
\* user turn without its assistant turn.
C11_LedgerPaired ==
    \A s \in Sessions :
        session_files[s].complete =>
            Paired(session_files[s].data.conversation_history)

\* A chat failed after the backend replied, its two turns appended to the
\* record it holds but not saved, and the persisted ledger has turns.
C11_Witness ==
    \E w \in Workers :
        /\ Failed(w, "chat")
        /\ Len(local[w].data.conversation_history) > Len(Ledger(local[w].sid))
        /\ Len(Ledger(local[w].sid)) >= 2

\* C13: a chat whose backend call raises answers 500 having called the
\* backend once, and neither that step nor the error response changes the
\* persisted record: no turn and no query record is added.
C13_FailedCallLeavesRecord ==
    [][\A w \in Workers :
          /\ (pc[w] = "c_model" /\ faults' = faults + 1) =>
                /\ pc'[w] = "error"
                /\ local'[w].status = 500
                /\ local'[w].attempts = 1
                /\ UNCHANGED <<session_files, committed>>
          /\ Failed(w, "chat") => UNCHANGED <<session_files, committed>>]_vars

\* A chat's backend call raised, in a session whose record has a query.
C13_Witness ==
    \E w \in Workers :
        /\ Failed(w, "chat")
        /\ local[w].attempts = 1
        /\ local[w].data = local[w].snap
        /\ Len(Persisted(local[w].sid).query_history) >= 1

\* C12: the context-window limit of every persisted config is greater than
\* zero, a config update that supplies a limit of zero or less being refused.
C12_LimitPositive ==
    \A s \in Sessions :
        session_files[s].complete =>
            session_files[s].data.config.context_limit > 0

\* C14: a remove request whose index is not below the number of documents
\* answers 400, and neither that step nor the error response changes the
\* session file or the upload directory.  (The route takes no negative index.)
C14_InvalidIndexNoEffect ==
    [][\A w \in Workers :
          /\ ( /\ pc[w] = "idle" /\ pc'[w] # "idle"
               /\ local'[w].op = "remove"
               /\ local'[w].index >= Len(Documents(local'[w].sid)) ) =>
                /\ pc'[w] = "error"
                /\ local'[w].status = 400
                /\ UNCHANGED <<session_files, uploads, committed>>
          /\ (Failed(w, "remove") /\ local[w].status = 400) =>
                UNCHANGED <<session_files, uploads, committed>>]_vars

\* A remove request with an index past the end was refused in a session
\* that has a server-stored document.
C14_Witness ==
    \E w \in Workers :
        /\ Failed(w, "remove")
        /\ local[w].status = 400
        /\ local[w].index >= Len(Documents(local[w].sid))
        /\ \E d \in Range(Documents(local[w].sid)) :
               d.stored_on_server /\ uploads[d.server_path] # None

\* C15: an upload that is refused (file type, text too short) or that fails
\* with an exception leaves, when it answers its error, the session record as
\* last saved and the upload directory as the request found it: no file more,
\* none less, none with another text.
C15_RefusedUploadNoTrace ==
    [][\A w \in Workers :
          (pc[w] # "error" /\ pc'[w] = "error" /\ local'[w].op = "upload") =>
            /\ uploads' = local'[w].store0
            /\ session_files'[local'[w].sid] = committed'[local'[w].sid]]_vars

\* The texts that are empty or hold nothing but whitespace.
Blank == {"", "  "}

\* C16: a chat whose message, or a system-prompt update whose prompt, is
\* empty or whitespace answers 400 with no call to the backend, and neither
\* that step nor the error response changes the persisted record.
C16_BlankRefused ==
    [][\A w \in Workers :
          /\ ( /\ pc[w] = "idle" /\ pc'[w] # "idle"
               /\ local'[w].op \in {"chat", "system_prompt"}
               /\ local'[w].raw \in Blank ) =>
                /\ pc'[w] = "error"
                /\ local'[w].status = 400
                /\ local'[w].attempts = 0
                /\ UNCHANGED <<session_files, committed>>
          /\ ( /\ pc[w] = "error"
               /\ local[w].op \in {"chat", "system_prompt"}
               /\ local[w].status = 400 ) =>
                UNCHANGED <<session_files, committed>>]_vars

\* A whitespace prompt was refused in a session that has a prompt of its own
\* and a ledger.
C16_Witness ==
    \E w \in Workers :
        /\ Failed(w, "system_prompt")
        /\ local[w].raw = "  "
        /\ Persisted(local[w].sid).system_prompt = "p1"
        /\ Len(Ledger(local[w].sid)) >= 2

\* C17: between requests, and no call having raised, loading a session
\* returns the record last saved for it, equal in every field, and the path
\* of each of its server-stored documents leads to a file holding the text
\* uploaded for that document (a text of the recorded size and token count);
\* a session never saved loads as the default state.
C17_RoundTrip ==
    (AllIdle /\ faults = 0) =>
        \A s \in Sessions :
            IF committed[s].exists
            THEN /\ load_session_data(s) = committed[s].data
                 /\ \A d \in Range(load_session_data(s).context_files) :
                       d.stored_on_server =>
                         /\ uploads[d.server_path] # None
                         /\ TextTable[uploads[d.server_path]].bytes = d.size
                         /\ count_tokens_estimate(uploads[d.server_path]) = d.tokens
            ELSE load_session_data(s) = DefaultState

\* The text of a document, where its tier keeps it.
TextOf(d) == IF d.stored_on_server THEN uploads[d.server_path] ELSE d.content

\* A message of this role whose content is this text.
Msg(role, text) == [role |-> role, content |-> <<Piece("text", 0, text)>>]

\* C18: the messages a chat sends are, in this order: one system message
\* with the system prompt; one system message with the assembled context if
\* and only if the session has a document; the turns of the ledger as
\* persisted when the call opts for the history, none otherwise; and last,
\* once, the new user message.
C18_MessageOrder ==
    \A w \in Workers :
        pc[w] = "c_model" =>
            LET m == local[w].messages
                state == Persisted(local[w].sid)
                c == IF Len(state.context_files) >= 1 THEN 1 ELSE 0
                h == IF local[w].use_history
                     THEN state.conversation_history ELSE <<>>
            IN  /\ Len(m) = 1 + c + Len(h) + 1
                /\ m[1] = Msg("system", state.system_prompt)
                /\ c = 1 => m[2] = [role |-> "system",
                                     content |-> local[w].permanent_context]
                /\ \A i \in 1..Len(h) :
                      m[1 + c + i] = Msg(h[i].role, h[i].content)
                /\ m[Len(m)] = Msg("user", local[w].message)

\* A chat that opts out of the history is sent for a session that has a
\* document and a ledger.
C18_Witness ==
    \E w \in Workers :
        /\ pc[w] = "c_model"
        /\ ~local[w].use_history
        /\ Len(Documents(local[w].sid)) >= 1
        /\ Len(Ledger(local[w].sid)) >= 2

\* C19: the context a chat assembles is empty for a session without
\* documents; for k documents it is the opening marker, then for the i-th
\* document of the list, i from 1 to k, the header with i and the name, the
\* document's text and the footer with i, then the closing marker.
C19_ContextAssembled ==
    \A w \in Workers :
        pc[w] = "c_model" =>
            LET docs == Documents(local[w].sid)
                k == Len(docs)
                out == local[w].permanent_context
            IN  IF k = 0 THEN out = <<>>
                ELSE /\ Len(out) = 3 * k + 2
                     /\ out[1] = Piece("=== CONTEXT DOCUMENTS ===", 0, None)
                     /\ \A i \in 1..k :
                           /\ out[3 * i - 1] =
                                  Piece("=== SOURCE i: name ===", i, docs[i].name)
                           /\ out[3 * i] = Piece("text", 0, TextOf(docs[i]))
                           /\ out[3 * i + 1] =
                                  Piece("=== END SOURCE i ===", i, None)
                     /\ out[3 * k + 2] =
                            Piece("=== END OF CONTEXT DOCUMENTS ===", 0, None)

\* A chat assembles the context of a session whose first document was
\* removed: the document now first was uploaded after a removed one.
C19_Witness ==
    \E w \in Workers :
        /\ pc[w] = "c_model"
        /\ Len(Documents(local[w].sid)) >= 1
        /\ \E d \in deleted[local[w].sid] :
               d.added < Documents(local[w].sid)[1].added

\* The value a config field takes from a JSON value: the numbers through
\* int() or float(), the strings as they are.
Taken(k, v) ==
    IF k \in {"max_tokens", "context_limit"} THEN int(v)
    ELSE IF k = "temperature" THEN float(v)
    ELSE v

\* A config update that succeeds leaves every field of the record but the
\* config as last saved, and in the config: each field of `taken` that the
\* body supplies has the supplied value, every other field its value as last
\* saved.
ConfigFrame(taken) ==
    \A w \in Workers :
        Completes(w, "config") =>
            LET s == local[w].sid
                before == committed[s].data
                after == session_files'[s].data
                body == local[w].request_data
            IN  /\ \A f \in DOMAIN DefaultState \ {"config"} : after[f] = before[f]
                /\ \A k \in DOMAIN DEFAULT_CONFIG :
                      after.config[k] =
                          IF k \in taken /\ k \in DOMAIN body
                          THEN Taken(k, body[k])
                          ELSE before.config[k]

\* C20 as stated: a config update changes exactly the supplied fields, each
\* of the five config fields taking the supplied value when it is supplied
\* and keeping its value when it is not; documents, ledger, query log and
\* system prompt stay as they were.
C20_SuppliedOfFive == [][ConfigFrame(DOMAIN DEFAULT_CONFIG)]_vars

\* C20 amended: the same for max_tokens, temperature and context_limit;
\* model_name and api_url keep their values whether supplied or not.
C20_SuppliedOfThree ==
    [][ConfigFrame({"max_tokens", "temperature", "context_limit"})]_vars

\* Both updates were made: the record has the numbers they supplied and the
\* model name it had.
C20_Witness ==
    /\ AllIdle
    /\ Persisted("s1").config.max_tokens = 100
    /\ Persisted("s1").config.temperature = 7
    /\ Persisted("s1").config.model_name = "default-model"

\* floor(n / 4), said without the division.
Quarter(n) == CHOOSE q \in 0..n : 4 * q <= n /\ n < 4 * q + 4

\* The sum of floor(len(content) / 4) over the turns of a ledger.
RECURSIVE QuartersOf(_)
QuartersOf(history) ==
    IF history = <<>> THEN 0
    ELSE Quarter(TextTable[Head(history).content].chars) + QuartersOf(Tail(history))

\* Worker w holds the body of a read request of kind `op`.
Answers(w, op) == pc[w] = "reply" /\ local[w].op = op

\* C21: the stats get_stats reports have total_tokens = context_tokens +
\* conversation_tokens and percentage_used = total_tokens / limit * 100 (the
\* fraction it holds is total_tokens over limit), the conversation tokens
\* being the sum of floor(len(content) / 4) over the
\* turns of the persisted ledger and the limit the one of the session's
\* persisted config.
C21_StatsArithmetic ==
    \A w \in Workers :
        Answers(w, "stats") =>
            LET r == local[w].reply
                state == Persisted(local[w].sid)
            IN  /\ r.total_tokens = r.context_tokens + r.conversation_tokens
                /\ r.conversation_tokens = QuartersOf(state.conversation_history)
                /\ r.context_limit = state.config.context_limit
                /\ r.percentage_used.num = r.total_tokens
                /\ r.percentage_used.den = r.context_limit

\* Stats are reported for a session with a limit of its own, a document and
\* a ledger.
C21_Witness ==
    \E w \in Workers :
        /\ Answers(w, "stats")
        /\ local[w].reply.context_limit = 10
        /\ local[w].reply.context_tokens > 0
        /\ local[w].reply.conversation_tokens > 0

\* C22: a document keeps, from the save that records it to the save that
\* drops it, its tier, its reference, its name, its byte size and its token
\* count: whatever request saves the record, a document that is in it before
\* and after (the same upload, by its time stamp) has them unchanged.
C22_DocumentFixed ==
    [][\A s \in Sessions :
          \A d \in Range(committed[s].data.context_files) :
              \A e \in Range(committed'[s].data.context_files) :
                  d.added = e.added =>
                      /\ e.stored_on_server = d.stored_on_server
                      /\ e.server_path = d.server_path
                      /\ e.name = d.name
                      /\ e.size = d.size
                      /\ e.tokens = d.tokens]_vars

\* A server-stored document is persisted after a chat gathered its text and
\* another document was removed.
C22_Witness ==
    /\ AllIdle
    /\ nchat["s1"] >= 1
    /\ deleted["s1"] # {}
    /\ \E d \in Range(Documents("s1")) :
           d.stored_on_server /\ d.content = None /\ d.tokens = 25600

\* C23: on the serial server the persisted query log grows by exactly one
\* record, at its end, with every chat that completes, and no other step
\* changes it (so its length is the number of chats completed since the
\* session was created, and no record of it is ever modified or dropped).
C23_QueryLogAppendOnly ==
    [][\A s \in Sessions :
          LET log == committed[s].data.query_history
              log_ == committed'[s].data.query_history
          IN  IF \E w \in Workers : Completes(w, "chat") /\ local[w].sid = s
              THEN Len(log_) = Len(log) + 1 /\ IsPrefix(log, log_)
              ELSE log_ = log]_vars

\* Two chats completed and conversation was cleared: the log has its two
\* records, the ledger none.
C23_Witness ==
    /\ AllIdle
    /\ Len(Persisted("s1").query_history) = 2
    /\ Ledger("s1") = <<>>

\* C24: nothing is refused or cut for the budget.  A chat is refused only
\* for a blank message, a document whose file cannot be read or a call that
\* raises, an upload only for its file type, a text too short or a call that
\* raises; and the context of every chat sent holds, in the list's order,
\* the whole text of every document of the session, the server-stored ones
\* read from their files.
C24_NoEnforcement ==
    [][\A w \in Workers :
          /\ (pc[w] # "error" /\ pc'[w] = "error" /\ local'[w].op = "chat") =>
                \/ local'[w].raw \in Blank
                \/ \E d \in Range(Documents(local'[w].sid)) : TextOf(d) = None
                \/ faults' = faults + 1
          /\ (pc[w] # "error" /\ pc'[w] = "error" /\ local'[w].op = "upload") =>
                \/ Lower(NameTable[local'[w].raw].ext) \notin ALLOWED_EXTENSIONS
                \/ TextTable[local'[w].text].stripped < 10
                \/ faults' = faults + 1
          /\ (pc[w] # "c_model" /\ pc'[w] = "c_model") =>
                LET docs == Documents(local'[w].sid)
                    out == local'[w].permanent_context
                IN  /\ Len(out) = IF docs = <<>> THEN 0 ELSE 3 * Len(docs) + 2
                    /\ \A i \in 1..Len(docs) :
                          out[3 * i].kind = "text" /\ out[3 * i].arg = TextOf(docs[i])
                    /\ docs # <<>> => local'[w].messages[2].content = out]_vars

\* A chat is sent for a session whose tokens exceed its limit.
C24_Witness ==
    \E w \in Workers :
        /\ pc[w] = "c_model"
        /\ Len(Documents(local[w].sid)) >= 1
        /\ get_stats(Persisted(local[w].sid)).context_limit > 0
        /\ get_stats(Persisted(local[w].sid)).total_tokens >
               get_stats(Persisted(local[w].sid)).context_limit

\* t is floor(n / 4).
IsQuarter(t, n) == 4 * t <= n /\ n < 4 * t + 4

\* C25: the token estimate of a text is floor(len / 4) in characters, 0 for
\* an empty or missing text: it is what an upload records for its text,
\* whether the record is inline or server-stored, what every persisted inline
\* record holds for its text, and what get_conversation shows for each turn.
C25_TokenEstimate ==
    /\ count_tokens_estimate("") = 0
    /\ count_tokens_estimate(None) = 0
    /\ \A w \in Workers :
          /\ (pc[w] = "save_open" /\ local[w].op = "upload") =>
                IsQuarter(local[w].file_info.tokens, TextTable[local[w].text].chars)
          /\ Answers(w, "conversation") =>
                \A i \in 1..Len(local[w].reply.messages) :
                    IsQuarter(local[w].reply.messages[i].tokens,
                              TextTable[local[w].reply.messages[i].content].chars)
    /\ \A s \in Sessions :
          \A d \in Range(Documents(s)) :
              ~d.stored_on_server => IsQuarter(d.tokens, TextTable[d.content].chars)

\* A server-stored record is about to be saved, with its estimate, in a
\* session that has an inline record with its own.
C25_Witness ==
    \E w \in Workers :
        /\ pc[w] = "save_open" /\ local[w].op = "upload"
        /\ local[w].file_info.stored_on_server
        /\ local[w].file_info.tokens = 25600
        /\ \E d \in Range(Documents(local[w].sid)) :
               ~d.stored_on_server /\ d.tokens = 10

\* What a request of session s observes: the record it loads and the texts
\* the documents of that record resolve to.
Observed(s) ==
    [state |-> Persisted(s),
     texts |-> [i \in 1..Len(Documents(s)) |-> TextOf(Documents(s)[i])]]

\* The session of the request worker w takes a step of.
Serving(w) == IF pc[w] = "idle" THEN local'[w].sid ELSE local[w].sid

\* C26: no step of a request of one session changes what a request of
\* another session observes: its record (documents, ledger, config, query
\* log, system prompt; the default state if it has none yet) and the texts
\* its documents resolve to.
C26_Isolation ==
    [][\A w \in Workers :
          (pc[w] # "idle" \/ pc'[w] # "idle") =>
              \A s \in Sessions \ {Serving(w)} : Observed(s)' = Observed(s)]_vars

\* C27: the context_tokens get_stats answers for a session equal the
\* total_tokens get_context answers for it: whichever of the two is asked,
\* its figure is the other's for the persisted record.
C27_NoDrift ==
    \A w \in Workers :
        /\ Answers(w, "stats") =>
              local[w].reply.context_tokens =
                  get_context(Persisted(local[w].sid)).total_tokens
        /\ Answers(w, "context") =>
              local[w].reply.total_tokens =
                  get_stats(Persisted(local[w].sid)).context_tokens

\* Stats are answered for a session that has an inline and a server-stored
\* document, after a chat.
C27_Witness ==
    \E w \in Workers :
        /\ Answers(w, "stats")
        /\ local[w].reply.queries_made >= 1
        /\ \E d \in Range(Documents(local[w].sid)) : d.stored_on_server
        /\ \E d \in Range(Documents(local[w].sid)) : ~d.stored_on_server

\* The record `after` is the record `before` but for these fields.
SameBut(before, after, fields) ==
    \A f \in DOMAIN DefaultState \ fields : after[f] = before[f]

\* C28: a remove request that succeeds leaves the persisted list without the
\* document at its index, the others in their order, and the rest of the
\* record as it was; clear_conversation empties the ledger and changes
\* nothing else, clear_context empties the list and changes nothing else.
C28_RemoveFrame ==
    [][\A w \in Workers :
          LET s == local[w].sid
              before == committed[s].data
              after == session_files'[s].data
              i == local[w].index + 1
          IN  /\ Completes(w, "remove") =>
                    /\ Len(after.context_files) = Len(before.context_files) - 1
                    /\ \A j \in 1..Len(after.context_files) :
                          after.context_files[j] =
                              before.context_files[IF j < i THEN j ELSE j + 1]
                    /\ SameBut(before, after, {"context_files"})
              /\ Completes(w, "clear_conversation") =>
                    /\ after.conversation_history = <<>>
                    /\ SameBut(before, after, {"conversation_history"})
              /\ Completes(w, "clear_context") =>
                    /\ after.context_files = <<>>
                    /\ SameBut(before, after, {"context_files"})]_vars

\* The first of two documents was removed from a session that has a ledger:
\* the one left was uploaded after the removed one.
C28_Witness ==
    /\ AllIdle
    /\ Len(Documents("s1")) = 1
    /\ \E d \in deleted["s1"] : d.added < Documents("s1")[1].added
    /\ Len(Ledger("s1")) >= 2


\* The step in which the request of worker w loads its session's record.
LoadStep(w) ==
    \/ /\ pc[w] = "idle" /\ pc'[w] # "idle"
       /\ local'[w].op # "upload"
       /\ ~(local'[w].op = "chat" /\ local'[w].raw \in Blank)
    \/ pc[w] = "u_read" /\ pc'[w] = "save_open"

\* The fields of the record a request of kind `op` writes.
Written(op) ==
    CASE op \in {"upload", "remove", "clear_context"} -> {"context_files"}
      [] op = "chat" -> {"conversation_history", "query_history"}
      [] op = "clear_conversation" -> {"conversation_history"}
      [] op = "config" -> {"config"}
      [] op = "system_prompt" -> {"system_prompt"}
      [] OTHER -> {}

====
